---- MODULE Spec2Model ----
(***************************************************************************)
(* Bulk generation orchestrator of src/src/App.tsx: startBulkGeneration    *)
(* (the batch loop over the target garments) and generateForTarget (the    *)
(* four sequential shots of one target), with the React state they write   *)
(* and the remote generation service they await.                           *)
(*                                                                         *)
(* JavaScript runs each handler to completion up to its next await, so     *)
(* the user's events (drops, removals, clicks) and the service's answers   *)
(* happen only while the handler is idle or suspended on a remote call.    *)
(* Between two awaits the model takes one step per group of statements     *)
(* that ends in a state update, so every value the record sequence takes   *)
(* is a state of the model.                                                *)
(***************************************************************************)
EXTENDS Integers, Sequences, FiniteSets, TLC

\* ------------------------------------------------------------------ bounds
MaxTargets == 2     \* target garments the user uploads at most
MaxScenes == 1      \* scene references the user uploads at most
MaxParts == 2       \* content parts a remote response carries at most

\* --------------------------------------------------------------- constants
ShotsPerTarget == 4    \* for (let i = 0; i < 4; i++)
CompletedProgress == 4 \* progress: 4 on completion
NoIndex == -1          \* useState(-1), setCurrentProcessingIndex(-1)

PngPrefix == "data:image/png;base64,"
KeyNotFound == "API Key not found."
NoError == "undefined"                    \* the optional field error?: string
RemoteErrors == {"quota exceeded", "network error"}
KeyValues == {"", "k"}                    \* an environment entry: unset or set

VARIABLES
    aistudio,                \* window.aistudio is present
    env,                     \* process.env: API_KEY, GEMINI_API_KEY
    apiKeySelected,          \* useState<boolean>(false)
    sceneReferences,         \* useState<ImageFile[]>([]), as the sequence of ids
    targetProducts,          \* useState<ImageFile[]>([]), as the sequence of ids
    results,                 \* useState<GenerationResult[]>([])
    isProcessing,            \* useState(false)
    currentProcessingIndex,  \* useState(-1)
    pc,                      \* position of the startBulkGeneration handler
    cTargets,                \* targetProducts as captured by the running handler
    cScenes,                 \* sceneReferences as captured by the running handler
    loopI,                   \* i of the loop of startBulkGeneration
    shotI,                   \* i of the loop of generateForTarget
    generatedImages,         \* generatedImages of generateForTarget
    thrown,                  \* message of the error on its way to the catch
    calls,                   \* remote calls issued in this batch, in issue order
    returned,                \* per target index: image data the service returned
    progressCalls            \* per target index: the counts onProgress was called with

vars == <<aistudio, env, apiKeySelected, sceneReferences, targetProducts, results,
          isProcessing, currentProcessingIndex, pc, cTargets, cScenes, loopI, shotI,
          generatedImages, thrown, calls, returned, progressCalls>>

uiVars == <<results, isProcessing, currentProcessingIndex>>
handlerVars == <<pc, cTargets, cScenes, loopI, shotI, generatedImages, thrown>>
remoteVars == <<calls, returned>>
hostVars == <<aistudio, env>>

\* ----------------------------------------------------------------- helpers
Range(s) == {s[k] : k \in DOMAIN s}

Min(S) == CHOOSE x \in S : \A y \in S : x <= y

\* prev.filter(img => img.id !== id)
RemoveId(s, id) == SelectSeq(s, LAMBDA x : x # id)

\* n ids not in use, the ids of the files of one drop
RECURSIVE FreshIds(_, _, _)
FreshIds(used, pool, n) ==
    IF n = 0 \/ pool \ used = {} THEN <<>>
    ELSE LET id == Min(pool \ used)
         IN <<id>> \o FreshIds(used \cup {id}, pool, n - 1)

\* process.env.API_KEY || process.env.GEMINI_API_KEY
Key(e) == IF e.API_KEY # "" THEN e.API_KEY ELSE e.GEMINI_API_KEY

\* `data:image/png;base64,${part.inlineData.data}`
DataUrl(data) == <<PngPrefix, data>>

\* InitialResults with the records in the reverse of the target order.
InitialResultsReversed(targets) ==
    [k \in 1..Len(targets) |->
        [targetId |-> targets[Len(targets) + 1 - k], images |-> <<>>,
         status |-> "pending", error |-> NoError, progress |-> 0]]

\* targetProducts.map(img => ({targetId: img.id, images: [], status: 'pending', progress: 0}))
InitialResults(targets) ==
    [k \in 1..Len(targets) |->
        [targetId |-> targets[k], images |-> <<>>, status |-> "pending",
         error |-> NoError, progress |-> 0]]

\* MarkProcessing without the test idx === i.
MarkProcessingAll(prev, idx) ==
    [k \in 1..Len(prev) |-> [prev[k] EXCEPT !.status = "processing"]]

\* prev.map((res, idx) => idx === i ? { ...res, status: 'processing' } : res)
MarkProcessing(prev, idx) ==
    [k \in 1..Len(prev) |->
        IF k - 1 = idx THEN [prev[k] EXCEPT !.status = "processing"] ELSE prev[k]]

\* OnProgress without the test idx === i.
OnProgressAll(prev, idx, count) ==
    [k \in 1..Len(prev) |-> [prev[k] EXCEPT !.progress = count]]

\* prev.map((res, idx) => idx === i ? { ...res, progress: count } : res)
OnProgress(prev, idx, count) ==
    [k \in 1..Len(prev) |->
        IF k - 1 = idx THEN [prev[k] EXCEPT !.progress = count] ELSE prev[k]]

\* MarkCompleted that leaves the counter at the last progress value.
MarkCompletedKeepsProgress(prev, idx, images) ==
    [k \in 1..Len(prev) |->
        IF k - 1 = idx
        THEN [prev[k] EXCEPT !.images = images, !.status = "completed"]
        ELSE prev[k]]

\* prev.map((res, idx) => idx === i ? { ...res, images, status: 'completed', progress: 4 } : res)
MarkCompleted(prev, idx, images) ==
    [k \in 1..Len(prev) |->
        IF k - 1 = idx
        THEN [prev[k] EXCEPT !.images = images, !.status = "completed",
                             !.progress = CompletedProgress]
        ELSE prev[k]]

\* MarkError that puts the counter back to 0.
MarkErrorResetsProgress(prev, idx, message) ==
    [k \in 1..Len(prev) |->
        IF k - 1 = idx
        THEN [prev[k] EXCEPT !.status = "error", !.error = message, !.progress = 0]
        ELSE prev[k]]

\* MarkError that also stores the images produced before the failure.
MarkErrorKeepsPartial(prev, idx, message) ==
    [k \in 1..Len(prev) |->
        IF k - 1 = idx
        THEN [prev[k] EXCEPT !.status = "error", !.error = message,
                             !.images = generatedImages]
        ELSE prev[k]]

\* prev.map((res, idx) => idx === i ? { ...res, status: 'error', error: error.message } : res)
MarkError(prev, idx, message) ==
    [k \in 1..Len(prev) |->
        IF k - 1 = idx THEN [prev[k] EXCEPT !.status = "error", !.error = message]
        ELSE prev[k]]

\* SceneRef that stays on the last scene reference instead of wrapping around.
SceneRefClamped(scenes, i) ==
    IF Len(scenes) = 0 THEN 0
    ELSE IF i < Len(scenes) THEN scenes[i + 1] ELSE scenes[Len(scenes)]

\* sceneReferences[i % sceneReferences.length]; 0 stands for undefined
\* (i % 0 is NaN, and an array has no element NaN)
SceneRef(scenes, i) ==
    IF Len(scenes) = 0 THEN 0 ELSE scenes[(i % Len(scenes)) + 1]

\* ------------------------------------------------------ the remote service
\* A response either has no candidates[0].content.parts or a sequence of
\* parts, each a text part or an inlineData part.
PartKinds == {"text", "inlineData"}

Shapes == UNION {[1..n -> PartKinds] : n \in 0..MaxParts}

ImageCount(shape) == Cardinality({k \in DOMAIN shape : shape[k] = "inlineData"})

\* The service names the image data it produces for a target 1, 2, 3, ... in
\* the order it produces them, so two image parts never carry the same data.
ServiceParts(shape, base) ==
    [k \in 1..Len(shape) |->
        IF shape[k] = "inlineData"
        THEN [kind |-> "inlineData",
              data |-> base + ImageCount(SubSeq(shape, 1, k))]
        ELSE [kind |-> "text", data |-> 0]]

ServiceData(shape, base) == [k \in 1..ImageCount(shape) |-> base + k]

\* ProcessParts that takes the first image part of a response only.
RECURSIVE ProcessPartsFirstOnly(_, _, _, _)
ProcessPartsFirstOnly(parts, images, prev, idx) ==
    IF parts = <<>> THEN [images |-> images, results |-> prev, invoked |-> <<>>]
    ELSE IF Head(parts).kind = "inlineData"
         THEN LET pushed == Append(images, DataUrl(Head(parts).data))
              IN [images |-> pushed, results |-> OnProgress(prev, idx, Len(pushed)),
                  invoked |-> <<Len(pushed)>>]
         ELSE ProcessPartsFirstOnly(Tail(parts), images, prev, idx)

\* ProcessParts that reports the progress once, after the parts of a response.
RECURSIVE PushParts(_, _)
PushParts(parts, images) ==
    IF parts = <<>> THEN images
    ELSE IF Head(parts).kind = "inlineData"
         THEN PushParts(Tail(parts), Append(images, DataUrl(Head(parts).data)))
         ELSE PushParts(Tail(parts), images)

ProcessPartsProgressAtEnd(parts, images, prev, idx) ==
    LET pushed == PushParts(parts, images)
    IN IF Len(pushed) = Len(images)
       THEN [images |-> images, results |-> prev, invoked |-> <<>>]
       ELSE [images |-> pushed, results |-> OnProgress(prev, idx, Len(pushed)),
             invoked |-> <<Len(pushed)>>]

\* for (const part of parts) if (part.inlineData) { generatedImages.push(..);
\* onProgress(generatedImages.length); }: the images and the records after it,
\* and the counts onProgress was called with, in call order
RECURSIVE ProcessParts(_, _, _, _)
ProcessParts(parts, images, prev, idx) ==
    IF parts = <<>> THEN [images |-> images, results |-> prev, invoked |-> <<>>]
    ELSE IF Head(parts).kind = "inlineData"
         THEN LET pushed == Append(images, DataUrl(Head(parts).data))
                  rest == ProcessParts(Tail(parts), pushed,
                                       OnProgress(prev, idx, Len(pushed)), idx)
              IN [rest EXCEPT !.invoked = <<Len(pushed)>> \o @]
         ELSE ProcessParts(Tail(parts), images, prev, idx)

\* -------------------------------------------------------------------- Init
\* The state after the component has mounted and its checkKey effect has
\* answered: apiKeySelected is what hasSelectedApiKey said, and stays false
\* where window.aistudio is missing.
Init ==
    /\ aistudio \in BOOLEAN
    /\ env \in [API_KEY : KeyValues, GEMINI_API_KEY : KeyValues]
    /\ apiKeySelected \in (IF aistudio THEN BOOLEAN ELSE {FALSE})
    /\ sceneReferences = <<>>
    /\ targetProducts = <<>>
    /\ results = <<>>
    /\ isProcessing = FALSE
    /\ currentProcessingIndex = NoIndex
    /\ pc = "idle"
    /\ cTargets = <<>>
    /\ cScenes = <<>>
    /\ loopI = 0
    /\ shotI = 0
    /\ generatedImages = <<>>
    /\ thrown = NoError
    /\ calls = <<>>
    /\ returned = <<>>
    /\ progressCalls = <<>>

\* The event loop takes the next event: no handler is running.
Quiescent == pc \in {"idle", "await"}

\* ------------------------------------------------------------ user actions
handleSelectKey ==
    /\ pc = "idle"
    /\ ~apiKeySelected
    /\ aistudio
    /\ apiKeySelected' = TRUE
    /\ UNCHANGED <<sceneReferences, targetProducts, uiVars, handlerVars, remoteVars,
                   hostVars, progressCalls>>

onDropScene ==
    /\ Quiescent
    /\ apiKeySelected
    /\ \E n \in 1..(MaxScenes - Len(sceneReferences)) :
          sceneReferences' =
              sceneReferences \o FreshIds(Range(sceneReferences), 1..MaxScenes, n)
    /\ UNCHANGED <<apiKeySelected, targetProducts, uiVars, handlerVars, remoteVars,
                   hostVars, progressCalls>>

onDropTarget ==
    /\ Quiescent
    /\ apiKeySelected
    /\ \E n \in 1..(MaxTargets - Len(targetProducts)) :
          targetProducts' =
              targetProducts \o FreshIds(Range(targetProducts), 1..MaxTargets, n)
    /\ UNCHANGED <<apiKeySelected, sceneReferences, uiVars, handlerVars, remoteVars,
                   hostVars, progressCalls>>

removeScene ==
    /\ Quiescent
    /\ apiKeySelected
    /\ \E id \in Range(sceneReferences) :
          sceneReferences' = RemoveId(sceneReferences, id)
    /\ UNCHANGED <<apiKeySelected, targetProducts, uiVars, handlerVars, remoteVars,
                   hostVars, progressCalls>>

removeTarget ==
    /\ Quiescent
    /\ apiKeySelected
    /\ \E id \in Range(targetProducts) :
          targetProducts' = RemoveId(targetProducts, id)
    /\ UNCHANGED <<apiKeySelected, sceneReferences, uiVars, handlerVars, remoteVars,
                   hostVars, progressCalls>>

\* The disabled condition of the button without its test of isProcessing.
GenerateDisabledNoFlag ==
    Len(targetProducts) = 0 \/ Len(sceneReferences) = 0

\* disabled={isProcessing || targetProducts.length === 0 || sceneReferences.length === 0}
GenerateDisabled ==
    isProcessing \/ Len(targetProducts) = 0 \/ Len(sceneReferences) = 0

\* The guard of line 185 without its test of the scene references.
StartRefusedTargetsOnly(targets, scenes) == Len(targets) = 0

\* if (targetProducts.length === 0 || sceneReferences.length === 0) return;
StartRefused(targets, scenes) == Len(targets) = 0 \/ Len(scenes) = 0

\* --------------------------------------------------- startBulkGeneration
\* The Generate button is clicked: the handler is entered.
ClickGenerate ==
    /\ Quiescent
    /\ apiKeySelected
    /\ ~GenerateDisabled
    /\ pc' = "guard"
    /\ UNCHANGED <<apiKeySelected, sceneReferences, targetProducts, uiVars, cTargets,
                   cScenes, loopI, shotI, generatedImages, thrown, remoteVars,
                   hostVars, progressCalls>>

\* startBulkGeneration is entered although a set is empty (the button is
\* disabled then, so this is a call that does not come from the button).
CallWithEmptyInput ==
    /\ pc = "idle"
    /\ apiKeySelected
    /\ ~isProcessing
    /\ (Len(targetProducts) = 0 \/ Len(sceneReferences) = 0)
    /\ pc' = "guard"
    /\ UNCHANGED <<apiKeySelected, sceneReferences, targetProducts, uiVars, cTargets,
                   cScenes, loopI, shotI, generatedImages, thrown, remoteVars,
                   hostVars, progressCalls>>

\* StartGuard that adds the new records to the ones of the previous batch.
StartGuardMerges ==
    /\ pc = "guard"
    /\ IF StartRefused(targetProducts, sceneReferences)
       THEN /\ pc' = "idle"
            /\ UNCHANGED <<uiVars, cTargets, cScenes, loopI, remoteVars, progressCalls>>
       ELSE /\ isProcessing' = TRUE
            /\ results' = results \o InitialResults(targetProducts)
            /\ cTargets' = targetProducts
            /\ cScenes' = sceneReferences
            /\ loopI' = 0
            /\ calls' = <<>>
            /\ returned' = [k \in 1..Len(targetProducts) |-> <<>>]
            /\ progressCalls' = [k \in 1..Len(targetProducts) |-> <<>>]
            /\ pc' = "loop"
            /\ UNCHANGED currentProcessingIndex
    /\ UNCHANGED <<apiKeySelected, sceneReferences, targetProducts, shotI,
                   generatedImages, thrown, hostVars>>

\* Lines 185-195: the guard, then setIsProcessing(true), setResults([]) and
\* setResults(initialResults); the handler keeps the targetProducts and
\* sceneReferences of the render it was created in.
StartGuard ==
    /\ pc = "guard"
    /\ IF StartRefused(targetProducts, sceneReferences)
       THEN /\ pc' = "idle"
            /\ UNCHANGED <<uiVars, cTargets, cScenes, loopI, remoteVars, progressCalls>>
       ELSE /\ isProcessing' = TRUE
            /\ results' = InitialResults(targetProducts)
            /\ cTargets' = targetProducts
            /\ cScenes' = sceneReferences
            /\ loopI' = 0
            /\ calls' = <<>>
            /\ returned' = [k \in 1..Len(targetProducts) |-> <<>>]
            /\ progressCalls' = [k \in 1..Len(targetProducts) |-> <<>>]
            /\ pc' = "loop"
            /\ UNCHANGED currentProcessingIndex
    /\ UNCHANGED <<apiKeySelected, sceneReferences, targetProducts, shotI,
                   generatedImages, thrown, hostVars>>

\* LoopStep that leaves the active index where it is when the loop is over.
LoopStepNoReset ==
    /\ pc = "loop"
    /\ IF loopI < Len(cTargets)
       THEN /\ currentProcessingIndex' = loopI
            /\ results' = MarkProcessing(results, loopI)
            /\ pc' = "gen"
            /\ UNCHANGED isProcessing
       ELSE /\ isProcessing' = FALSE
            /\ pc' = "idle"
            /\ UNCHANGED <<results, currentProcessingIndex>>
    /\ UNCHANGED <<apiKeySelected, sceneReferences, targetProducts, cTargets, cScenes,
                   loopI, shotI, generatedImages, thrown, remoteVars, hostVars,
                   progressCalls>>

\* Lines 197-203, and 221-222 when the loop is over.
LoopStep ==
    /\ pc = "loop"
    /\ IF loopI < Len(cTargets)
       THEN /\ currentProcessingIndex' = loopI
            /\ results' = MarkProcessing(results, loopI)
            /\ pc' = "gen"
            /\ UNCHANGED isProcessing
       ELSE /\ isProcessing' = FALSE
            /\ currentProcessingIndex' = NoIndex
            /\ pc' = "idle"
            /\ UNCHANGED results
    /\ UNCHANGED <<apiKeySelected, sceneReferences, targetProducts, cTargets, cScenes,
                   loopI, shotI, generatedImages, thrown, remoteVars,
                   hostVars, progressCalls>>

\* ----------------------------------------------------- generateForTarget
\* Lines 134-139: the key check and the empty generatedImages.
GenEnter ==
    /\ pc = "gen"
    /\ IF Key(env) = ""
       THEN /\ thrown' = KeyNotFound
            /\ pc' = "catch"
            /\ UNCHANGED <<shotI, generatedImages>>
       ELSE /\ generatedImages' = <<>>
            /\ shotI' = 0
            /\ pc' = "shot"
            /\ UNCHANGED thrown
    /\ UNCHANGED <<apiKeySelected, sceneReferences, targetProducts, uiVars, cTargets,
                   cScenes, loopI, remoteVars, hostVars, progressCalls>>

\* The request of one shot as the service sees it.
Call(target, shot, scene, garment) ==
    [target |-> target, shot |-> shot, scene |-> scene, garment |-> garment,
     state |-> "pending", message |-> NoError]

\* ShotStep that issues the call of a shot without awaiting it.
ShotStepNoAwait ==
    /\ pc = "shot"
    /\ IF shotI < ShotsPerTarget
       THEN /\ calls' = Append(calls, Call(loopI, shotI, SceneRef(cScenes, shotI),
                                           cTargets[loopI + 1]))
            /\ shotI' = shotI + 1
            /\ UNCHANGED pc
       ELSE /\ pc' = "return"
            /\ UNCHANGED <<shotI, calls>>
    /\ UNCHANGED <<apiKeySelected, sceneReferences, targetProducts, uiVars, cTargets,
                   cScenes, loopI, generatedImages, thrown, returned,
                   hostVars, progressCalls>>

\* ShotStep that reads the scene references of the latest render instead of
\* those of the render the handler was created in.
ShotStepLiveScenes ==
    /\ pc = "shot"
    /\ IF shotI < ShotsPerTarget
       THEN LET sceneRef == SceneRef(sceneReferences, shotI)
            IN IF sceneRef = 0
               THEN /\ shotI' = shotI + 1
                    /\ UNCHANGED <<pc, calls>>
               ELSE /\ calls' = Append(calls,
                                   Call(loopI, shotI, sceneRef, cTargets[loopI + 1]))
                    /\ pc' = "await"
                    /\ UNCHANGED shotI
       ELSE /\ pc' = "return"
            /\ UNCHANGED <<shotI, calls>>
    /\ UNCHANGED <<apiKeySelected, sceneReferences, targetProducts, uiVars, cTargets,
                   cScenes, loopI, generatedImages, thrown, returned,
                   hostVars, progressCalls>>

\* Lines 141-165: the loop test, the scene reference of the shot, the
\* `continue` of a missing scene reference, and the call that is awaited;
\* line 181 when the loop is over.
ShotStep ==
    /\ pc = "shot"
    /\ IF shotI < ShotsPerTarget
       THEN LET sceneRef == SceneRef(cScenes, shotI)
            IN IF sceneRef = 0
               THEN /\ shotI' = shotI + 1
                    /\ UNCHANGED <<pc, calls>>
               ELSE /\ calls' = Append(calls,
                                   Call(loopI, shotI, sceneRef, cTargets[loopI + 1]))
                    /\ pc' = "await"
                    /\ UNCHANGED shotI
       ELSE /\ pc' = "return"
            /\ UNCHANGED <<shotI, calls>>
    /\ UNCHANGED <<apiKeySelected, sceneReferences, targetProducts, uiVars, cTargets,
                   cScenes, loopI, generatedImages, thrown, returned,
                   hostVars, progressCalls>>

Settle(log, state, message) ==
    [log EXCEPT ![Len(log)] = [@ EXCEPT !.state = state, !.message = message]]

\* The awaited call resolves with content parts (lines 167-174).
Resolve ==
    /\ pc = "await"
    /\ \E shape \in Shapes :
          LET base == Len(returned[loopI + 1])
              r == ProcessParts(ServiceParts(shape, base), generatedImages, results,
                                loopI)
          IN /\ returned' = [returned EXCEPT ![loopI + 1] = @ \o ServiceData(shape, base)]
             /\ generatedImages' = r.images
             /\ results' = r.results
             /\ progressCalls' = [progressCalls EXCEPT ![loopI + 1] = @ \o r.invoked]
    /\ calls' = Settle(calls, "resolved", NoError)
    /\ shotI' = shotI + 1
    /\ pc' = "shot"
    /\ UNCHANGED <<apiKeySelected, sceneReferences, targetProducts, isProcessing,
                   currentProcessingIndex, cTargets, cScenes, loopI, thrown, hostVars>>

\* ResolveNoParts that treats a response without parts as a failed call.
ResolveNoPartsThrows ==
    /\ pc = "await"
    /\ calls' = Settle(calls, "resolved", NoError)
    /\ thrown' = "no image returned"
    /\ pc' = "catch"
    /\ UNCHANGED <<apiKeySelected, sceneReferences, targetProducts, uiVars, cTargets,
                   cScenes, loopI, shotI, generatedImages, returned,
                   hostVars, progressCalls>>

\* The awaited call resolves without candidates[0].content.parts (line 167).
ResolveNoParts ==
    /\ pc = "await"
    /\ calls' = Settle(calls, "resolved", NoError)
    /\ shotI' = shotI + 1
    /\ pc' = "shot"
    /\ UNCHANGED <<apiKeySelected, sceneReferences, targetProducts, uiVars, cTargets,
                   cScenes, loopI, generatedImages, thrown, returned,
                   hostVars, progressCalls>>

\* Reject whose catch logs the error and goes on with the next shot.
RejectSwallowed ==
    /\ pc = "await"
    /\ \E message \in RemoteErrors : calls' = Settle(calls, "rejected", message)
    /\ shotI' = shotI + 1
    /\ pc' = "shot"
    /\ UNCHANGED <<apiKeySelected, sceneReferences, targetProducts, uiVars, cTargets,
                   cScenes, loopI, generatedImages, thrown, returned,
                   hostVars, progressCalls>>

\* The awaited call rejects: console.error and throw error (lines 175-178).
Reject ==
    /\ pc = "await"
    /\ \E message \in RemoteErrors :
          /\ calls' = Settle(calls, "rejected", message)
          /\ thrown' = message
    /\ pc' = "catch"
    /\ UNCHANGED <<apiKeySelected, sceneReferences, targetProducts, uiVars, cTargets,
                   cScenes, loopI, shotI, generatedImages, returned,
                   hostVars, progressCalls>>

\* Lines 206 and 211-213: generateForTarget returned its images.
Complete ==
    /\ pc = "return"
    /\ results' = MarkCompleted(results, loopI, generatedImages)
    /\ loopI' = loopI + 1
    /\ shotI' = 0
    /\ generatedImages' = <<>>
    /\ pc' = "loop"
    /\ UNCHANGED <<apiKeySelected, sceneReferences, targetProducts, isProcessing,
                   currentProcessingIndex, cTargets, cScenes, thrown, remoteVars,
                   hostVars, progressCalls>>

\* Catch that records the error and throws it again, out of the loop.
CatchRethrows ==
    /\ pc = "catch"
    /\ results' = MarkError(results, loopI, thrown)
    /\ shotI' = 0
    /\ generatedImages' = <<>>
    /\ thrown' = NoError
    /\ pc' = "idle"
    /\ UNCHANGED <<apiKeySelected, sceneReferences, targetProducts, isProcessing,
                   currentProcessingIndex, cTargets, cScenes, loopI, remoteVars,
                   hostVars, progressCalls>>

\* Lines 214-218: generateForTarget threw.
Catch ==
    /\ pc = "catch"
    /\ results' = MarkError(results, loopI, thrown)
    /\ loopI' = loopI + 1
    /\ shotI' = 0
    /\ generatedImages' = <<>>
    /\ thrown' = NoError
    /\ pc' = "loop"
    /\ UNCHANGED <<apiKeySelected, sceneReferences, targetProducts, isProcessing,
                   currentProcessingIndex, cTargets, cScenes, remoteVars,
                   hostVars, progressCalls>>

Next ==
    \/ handleSelectKey
    \/ onDropScene
    \/ onDropTarget
    \/ removeScene
    \/ removeTarget
    \/ ClickGenerate
    \/ CallWithEmptyInput
    \/ StartGuard
    \/ LoopStep
    \/ GenEnter
    \/ ShotStep
    \/ Resolve
    \/ ResolveNoParts
    \/ Reject
    \/ Complete
    \/ Catch

Spec == Init /\ [][Next]_vars

\* The handler's continuation runs as soon as it is enabled (the event loop
\* runs a ready microtask), and every remote call is answered in the end.
HandlerStep == StartGuard \/ LoopStep \/ GenEnter \/ ShotStep \/ Complete \/ Catch

ServiceAnswer == Resolve \/ ResolveNoParts \/ Reject

FairSpec == Spec /\ WF_vars(HandlerStep) /\ WF_vars(ServiceAnswer)

\* ------------------------------------------------- batches over given inputs
\* The uploads are done (1, 2 or 5 scene references, 1 or 2 targets), the key
\* is selected, and the user only clicks Generate.
SceneSizes == {1, 2, 5}

SceneInputs ==
    {[k \in 1..n |-> k] : n \in SceneSizes} \cup {[k \in 1..n |-> n + 1 - k] : n \in SceneSizes}

TargetInputs == {<<1>>, <<1, 2>>}

SceneInit ==
    /\ aistudio = TRUE
    /\ env \in [API_KEY : KeyValues, GEMINI_API_KEY : KeyValues]
    /\ apiKeySelected = TRUE
    /\ sceneReferences \in SceneInputs
    /\ targetProducts \in TargetInputs
    /\ results = <<>>
    /\ isProcessing = FALSE
    /\ currentProcessingIndex = NoIndex
    /\ pc = "idle"
    /\ cTargets = <<>>
    /\ cScenes = <<>>
    /\ loopI = 0
    /\ shotI = 0
    /\ generatedImages = <<>>
    /\ thrown = NoError
    /\ calls = <<>>
    /\ returned = <<>>
    /\ progressCalls = <<>>

SceneNext ==
    \/ ClickGenerate
    \/ StartGuard
    \/ LoopStep
    \/ GenEnter
    \/ ShotStep
    \/ Resolve
    \/ ResolveNoParts
    \/ Reject
    \/ Complete
    \/ Catch

SceneSpec == SceneInit /\ [][SceneNext]_vars

TypeOK ==
    /\ pc \in {"idle", "guard", "loop", "gen", "shot", "await", "return", "catch"}
    /\ isProcessing \in BOOLEAN
    /\ currentProcessingIndex \in NoIndex..(MaxTargets - 1)
    /\ \A k \in DOMAIN results :
          results[k].status \in {"pending", "processing", "completed", "error"}

\* ------------------------------------------------------------------ claims
Terminal == {"completed", "error"}

TargetIndexes == 0..(Len(cTargets) - 1)

CallsOf(t) == {k \in DOMAIN calls : calls[k].target = t}

RejectedOf(t) == {k \in CallsOf(t) : calls[k].state = "rejected"}

InFlight == {k \in DOMAIN calls : calls[k].state = "pending"}

\* The handler is inside the try block of target t.
Generating(t) == loopI = t /\ pc \in {"gen", "shot", "await", "return", "catch"}

\* C1: failure isolation. When a remote call of target t was rejected, every
\* later target u is still processed: the loop does not end before u, u is
\* processing while its generation runs, and once the loop is past u its
\* record is error exactly when one of u's own calls was rejected, and
\* completed exactly when u's own four calls all resolved.
C1_FailureIsolation ==
    \A t \in TargetIndexes : \A u \in TargetIndexes :
        (t < u /\ RejectedOf(t) # {}) =>
            /\ pc = "idle" => loopI > u
            /\ Generating(u) => results[u + 1].status = "processing"
            /\ loopI > u =>
                  /\ results[u + 1].status \in Terminal
                  /\ results[u + 1].status = "error" <=> RejectedOf(u) # {}
                  /\ results[u + 1].status = "completed" <=>
                        /\ Cardinality(CallsOf(u)) = ShotsPerTarget
                        /\ \A k \in CallsOf(u) : calls[k].state = "resolved"

C1_Witness ==
    /\ Len(results) = 2
    /\ RejectedOf(0) # {}
    /\ results[1].status = "error"
    /\ results[2].status = "completed"
    /\ pc = "idle"

\* C2: within one batch (every step but the one that initialises a batch) the
\* records stay in place and each status either stays or moves
\* pending -> processing or processing -> completed | error.
StatusStep(a, b) ==
    \/ a = b
    \/ a = "pending" /\ b = "processing"
    \/ a = "processing" /\ b \in Terminal

C2_StatusTransitions ==
    [][(isProcessing \/ ~isProcessing') =>
          /\ Len(results') = Len(results)
          /\ \A k \in DOMAIN results : StatusStep(results[k].status, results'[k].status)]_vars

C2_Witness ==
    /\ Len(results) = 2
    /\ results[1].status = "completed"
    /\ results[2].status = "error"
    /\ isProcessing

\* C3: a rejected call of shot k of a target is the last call of that target
\* (no shot after k, no second call of shot k), and its error is on its way
\* to the catch of startBulkGeneration or is the error of the target's record.
C3_AbortOnShotFailure ==
    \A k \in DOMAIN calls :
        calls[k].state = "rejected" =>
            LET t == calls[k].target
            IN /\ \A j \in CallsOf(t) :
                     /\ calls[j].shot <= calls[k].shot
                     /\ calls[j].shot = calls[k].shot => j = k
               /\ \/ /\ pc = "catch"
                     /\ loopI = t
                     /\ thrown = calls[k].message
                     /\ results[t + 1].status = "processing"
                  \/ /\ loopI > t
                     /\ results[t + 1].status = "error"
                     /\ results[t + 1].error = calls[k].message

C3_Witness ==
    \E k \in DOMAIN calls :
        /\ calls[k].state = "rejected"
        /\ calls[k].shot = 1
        /\ loopI > calls[k].target
        /\ results[calls[k].target + 1].status = "error"

\* C4: the record sequence has one record per target of the batch, record i
\* with the identifier of target i, from the initialisation of a batch until
\* the next one, whatever the user does to the target set meanwhile.
C4_OneRecordPerTarget ==
    /\ Len(results) = Len(cTargets)
    /\ \A k \in DOMAIN results : results[k].targetId = cTargets[k]
    /\ isProcessing => Len(results) > 0

C4_Witness ==
    /\ Len(results) = 2
    /\ pc = "await"
    /\ loopI = 1
    /\ targetProducts # cTargets
    /\ results[1].targetId # results[2].targetId

\* C5: at most one remote call is in flight; a call in flight is the last one
\* issued and the handler awaits it; calls are issued in target order and,
\* within a target, in shot order; and when a call of target t is issued the
\* records of the targets before t are completed or error.
C5_SerialExecution ==
    /\ Cardinality(InFlight) <= 1
    /\ \A k \in InFlight : k = Len(calls) /\ pc = "await"
    /\ \A j \in DOMAIN calls : \A k \in DOMAIN calls :
          j < k =>
             \/ calls[j].target < calls[k].target
             \/ calls[j].target = calls[k].target /\ calls[j].shot < calls[k].shot
    /\ \A k \in DOMAIN calls : \A t \in 0..(calls[k].target - 1) :
          results[t + 1].status \in Terminal

C5_Witness ==
    /\ pc = "await"
    /\ loopI = 1
    /\ shotI = 1
    /\ Cardinality(InFlight) = 1

\* C6: a call of startBulkGeneration with no target or no scene reference
\* leaves the records, the processing flag and the active index as they were
\* and issues no remote call.
C6_EmptyInputNoOp ==
    [][(pc = "guard" /\ (Len(targetProducts) = 0 \/ Len(sceneReferences) = 0)) =>
          /\ results' = results
          /\ isProcessing' = isProcessing
          /\ currentProcessingIndex' = currentProcessingIndex
          /\ calls' = calls
          /\ pc' = "idle"]_vars

C6_Witness ==
    /\ pc = "guard"
    /\ Len(sceneReferences) = 0
    /\ Len(targetProducts) > 0
    /\ Len(results) > 0

\* C7: with no credential the batch is refused as a whole: no records are
\* created and no record is put in error.
C7_MissingCredentialAbortsBatch ==
    Key(env) = "" =>
        /\ Len(results) = 0
        /\ \A k \in DOMAIN results : results[k].status # "error"

\* C8: the counter of every record is in 0..4.
C8_ProgressAtMostFour ==
    \A k \in DOMAIN results : results[k].progress \in 0..ShotsPerTarget

\* C9 as stated: a processing or completed record has as many images as its
\* counter says.
C9_ImagesLengthIsProgress ==
    \A k \in DOMAIN results :
        results[k].status \in {"processing", "completed"} =>
            Len(results[k].images) = results[k].progress

\* C9 as amended: a processing record has no images yet and its counter is
\* the number of image parts returned for its target so far; a completed
\* record has counter 4 and as many images as image parts were returned.
C9_ImagesAndProgress ==
    \A k \in DOMAIN results :
        /\ results[k].status = "processing" =>
              /\ results[k].images = <<>>
              /\ results[k].progress = Len(returned[k])
        /\ results[k].status = "completed" =>
              /\ results[k].progress = 4
              /\ Len(results[k].images) = Len(returned[k])

C9_Witness ==
    /\ Len(results) = 2
    /\ results[1].status = "completed"
    /\ Len(results[1].images) = 5
    /\ results[2].status = "processing"
    /\ results[2].progress = 3

\* C10: a completed record is the outcome of at most 4 remote calls and its
\* images are the image parts those calls returned, each as a PNG data URL,
\* in the order the service produced them.
C10_ImagesAreReturnedParts ==
    \A k \in DOMAIN results :
        results[k].status = "completed" =>
            /\ Cardinality(CallsOf(k - 1)) <= 4
            /\ Len(results[k].images) = Len(returned[k])
            /\ \A n \in DOMAIN returned[k] :
                  results[k].images[n] = <<"data:image/png;base64,", returned[k][n]>>

C10_Witness ==
    \E k \in DOMAIN results :
        /\ results[k].status = "completed"
        /\ Len(results[k].images) = 6
        /\ Cardinality(CallsOf(k - 1)) = 4

\* C11: the call of shot i of any target carries the scene reference at
\* position i mod s of the scene set of size s, and a completed target has had
\* one call for each of the shots 0..3 (scene sets of size 1, 2 and 5).
C11_SceneCycling ==
    /\ \A k \in DOMAIN calls :
          /\ calls[k].shot \in 0..3
          /\ calls[k].scene = sceneReferences[(calls[k].shot % Len(sceneReferences)) + 1]
    /\ \A t \in TargetIndexes :
          results[t + 1].status = "completed" =>
              {calls[k].shot : k \in CallsOf(t)} = 0..3

C11_Witness ==
    /\ Len(sceneReferences) = 2
    /\ \E k \in DOMAIN calls :
          /\ calls[k].target = 1
          /\ calls[k].shot = 2
          /\ calls[k].scene = sceneReferences[1]
    /\ \E k \in DOMAIN calls : calls[k].shot = 1 /\ calls[k].scene = sceneReferences[2]
    /\ results[1].status = "error"

C11_WitnessFive ==
    /\ Len(sceneReferences) = 5
    /\ \E k \in DOMAIN calls : calls[k].shot = 3 /\ calls[k].scene = sceneReferences[4]

\* C12: onProgress is called once per appended image, in append order, with
\* the counts 1, 2, 3, ...; while a record is processing its counter is the
\* last count reported; and a completed target for which four image parts
\* were returned (one per call, for instance) has had the calls 1, 2, 3, 4 and
\* has 4 images and counter 4.
C12_ProgressCallbacks ==
    \A k \in DOMAIN results :
        /\ progressCalls[k] = [n \in 1..Len(returned[k]) |-> n]
        /\ (results[k].status = "processing" /\ progressCalls[k] # <<>>) =>
              results[k].progress = progressCalls[k][Len(progressCalls[k])]
        /\ (results[k].status = "completed" /\ Len(returned[k]) = 4) =>
              /\ progressCalls[k] = <<1, 2, 3, 4>>
              /\ Len(results[k].images) = 4
              /\ results[k].progress = 4

C12_Witness ==
    \E k \in DOMAIN results :
        /\ results[k].status = "completed"
        /\ progressCalls[k] = <<1, 2, 3, 4>>
        /\ Len(results[k].images) = 4
        /\ Cardinality(CallsOf(k - 1)) = 4

\* C13: a record in error has no images, also when shots of its target had
\* produced images before the failing one.
C13_ErrorHasNoImages ==
    \A k \in DOMAIN results :
        results[k].status = "error" => results[k].images = <<>>

C13_Witness ==
    \E k \in DOMAIN results :
        /\ results[k].status = "error"
        /\ Len(returned[k]) = 3
        /\ results[k].images = <<>>

\* C14: the step that starts a batch replaces the whole record sequence: it
\* then has one record per current target, in order, each pending, without
\* images, with counter 0 and no error, whatever the previous batch left.
C14_NewBatchReplacesRecords ==
    [][(~isProcessing /\ isProcessing') =>
          /\ Len(results') = Len(targetProducts)
          /\ Len(results') > 0
          /\ \A k \in DOMAIN results' :
                results'[k] = [targetId |-> targetProducts[k], images |-> <<>>,
                               status |-> "pending", error |-> "undefined",
                               progress |-> 0]]_vars

\* A second batch is about to be initialised over a previous batch's records.
C14_Witness ==
    /\ pc = "guard"
    /\ Len(targetProducts) = 1
    /\ Len(sceneReferences) = 1
    /\ Len(results) = 2
    /\ results[1].status = "completed"
    /\ Len(results[1].images) > 0
    /\ results[2].status = "error"
    /\ results[2].progress > 0

\* C15: while the handler generates a target, the active index is the index
\* of that target, its record is the only one processing, the records before
\* it are completed or error and the records after it are pending; between
\* two targets no record is processing; and when no batch runs the active
\* index is -1 and the processing flag is false.
C15_ActiveIndex ==
    /\ pc \in {"gen", "shot", "await", "return", "catch"} =>
          /\ isProcessing
          /\ currentProcessingIndex = loopI
          /\ currentProcessingIndex \in 0..(Len(results) - 1)
          /\ \A k \in DOMAIN results :
                /\ k - 1 < currentProcessingIndex => results[k].status \in Terminal
                /\ k - 1 = currentProcessingIndex => results[k].status = "processing"
                /\ k - 1 > currentProcessingIndex => results[k].status = "pending"
    /\ pc = "loop" =>
          \A k \in DOMAIN results :
              /\ k - 1 < loopI => results[k].status \in Terminal
              /\ k - 1 >= loopI => results[k].status = "pending"
    /\ pc \in {"idle", "guard"} =>
          /\ currentProcessingIndex = -1
          /\ ~isProcessing
          /\ \A k \in DOMAIN results : results[k].status \in Terminal

C15_Witness ==
    /\ pc = "await"
    /\ Len(results) = 2
    /\ currentProcessingIndex = 0
    /\ results[1].status = "processing"
    /\ results[2].status = "pending"
    /\ results[1].progress > 0

C15_WitnessReset ==
    /\ pc = "idle"
    /\ Len(results) = 2
    /\ results[1].status = "error"
    /\ currentProcessingIndex = -1

\* C16: once a batch has started it finishes, whatever succeeds or fails: the
\* processing flag returns to false, the active index to -1 and every record
\* is completed or error.
BatchFinished ==
    /\ ~isProcessing
    /\ currentProcessingIndex = -1
    /\ \A k \in DOMAIN results : results[k].status \in Terminal

C16_BatchTerminates == isProcessing ~> BatchFinished

C16_Witness ==
    /\ BatchFinished
    /\ Len(results) = 2
    /\ results[1].status = "error"
    /\ results[1].error \in RemoteErrors
    /\ results[2].status = "completed"

\* C17: while a batch runs, no step changes a record other than the one of
\* the target being processed, no step changes the number of records, and a
\* step taken while a remote call is awaited (the progress callbacks of its
\* response) changes nothing but the counter of that record.
C17_FrameOfUpdates ==
    [][isProcessing =>
          /\ Len(results') = Len(results)
          /\ \A k \in DOMAIN results :
                /\ k - 1 # loopI => results'[k] = results[k]
                /\ (k - 1 = loopI /\ pc = "await") =>
                      /\ results'[k].targetId = results[k].targetId
                      /\ results'[k].status = results[k].status
                      /\ results'[k].images = results[k].images
                      /\ results'[k].error = results[k].error]_vars

C17_Witness ==
    /\ Len(results) = 2
    /\ results[1].status = "completed"
    /\ Len(results[1].images) = 2
    /\ results[2].status = "processing"
    /\ results[2].progress = 3
    /\ pc = "await"

\* A shot of a running batch is about to execute and the user has removed
\* every scene reference since the batch started.
ScenesEmptiedMidRun ==
    /\ isProcessing
    /\ pc = "shot"
    /\ shotI < ShotsPerTarget
    /\ Len(sceneReferences) = 0

\* C18 as stated: when the scene references become empty while a batch is
\* running, each shot executed afterwards is skipped: no remote call is
\* issued, no output is produced, no progress callback fires and no error
\* is raised.
C18_ShotsSkippedWhenScenesEmptied ==
    [][ScenesEmptiedMidRun =>
          /\ calls' = calls
          /\ generatedImages' = generatedImages
          /\ progressCalls' = progressCalls
          /\ thrown' = thrown
          /\ results' = results]_vars

\* C18 as amended: when the scene references become empty while a batch is
\* running, each shot executed afterwards is still issued, with the scene
\* reference at position i mod s of the scene references the batch started
\* with, and is awaited; no shot is skipped.
C18_ShotsUseScenesOfBatchStart ==
    [][ScenesEmptiedMidRun =>
          /\ Len(cScenes) > 0
          /\ calls' = Append(calls, Call(loopI, shotI,
                                         cScenes[(shotI % Len(cScenes)) + 1],
                                         cTargets[loopI + 1]))
          /\ pc' = "await"
          /\ shotI' = shotI
          /\ results' = results]_vars

C18_Witness ==
    /\ ScenesEmptiedMidRun
    /\ shotI = 2
    /\ Len(calls) = 2
    /\ \A k \in 1..2 : calls[k].state = "resolved"
    /\ results[1].progress > 0

SomeRecordProcessing == \E k \in DOMAIN results : results[k].status = "processing"

\* C19: no overlapping batches. The handler is entered only while the
\* processing flag is false; the flag is set by the first step of a batch and
\* is true exactly while the batch loop is active; it is cleared only after
\* every target of the batch has reached a terminal status; and the records
\* are never re-initialised while some record is processing.
C19_NoOverlappingBatches ==
    /\ [](/\ pc = "guard" => ~isProcessing /\ ~SomeRecordProcessing
          /\ isProcessing <=> pc \notin {"idle", "guard"}
          /\ SomeRecordProcessing => isProcessing)
    /\ [][/\ (~isProcessing /\ isProcessing') => pc = "guard" /\ pc' = "loop"
          /\ (isProcessing /\ ~isProcessing') =>
                /\ loopI = Len(cTargets)
                /\ Len(results) = Len(cTargets)
                /\ \A k \in DOMAIN results : results[k].status \in Terminal
          /\ SomeRecordProcessing =>
                /\ Len(results') = Len(results)
                /\ \A k \in DOMAIN results :
                      results'[k].targetId = results[k].targetId]_vars

C19_Witness ==
    /\ pc = "await"
    /\ isProcessing
    /\ Len(targetProducts) > 0
    /\ Len(sceneReferences) > 0
    /\ Len(results) = 2
    /\ results[1].status = "error"
    /\ results[2].status = "processing"

\* The step settles the awaited call as resolved and the response carries no
\* image part (no parts at all, or text parts only).
ResolvedWithoutImage ==
    /\ pc = "await"
    /\ calls'[Len(calls)].state = "resolved"
    /\ returned' = returned

\* C20: a call that resolves with no image part is not a failure: nothing
\* is appended, no progress callback fires, no error is raised and the
\* generator goes on to the next shot; a record that ends completed has
\* counter 4 and holds the images its 4 resolved calls returned, which may be
\* fewer than 4 and may be none.
C20_NoImageIsNotAFailure ==
    /\ [][ResolvedWithoutImage =>
            /\ generatedImages' = generatedImages
            /\ results' = results
            /\ progressCalls' = progressCalls
            /\ thrown' = thrown
            /\ shotI' = shotI + 1
            /\ pc' = "shot"]_vars
    /\ [](\A k \in DOMAIN results :
            (isProcessing /\ k - 1 < loopI /\ RejectedOf(k - 1) = {}
                /\ Cardinality(CallsOf(k - 1)) = ShotsPerTarget) =>
               /\ results[k].status = "completed"
               /\ results[k].progress = CompletedProgress
               /\ Len(results[k].images) = Len(returned[k]))

C20_Witness ==
    /\ Len(results) = 2
    /\ results[1].status = "completed"
    /\ results[1].progress = CompletedProgress
    /\ results[1].images = <<>>
    /\ results[2].status = "completed"
    /\ Len(results[2].images) = 1
    /\ Len(calls) = 2 * ShotsPerTarget

\* The last value the progress callback of target k reported, 0 when it was
\* never invoked.
LastProgress(k) ==
    IF progressCalls[k] = <<>> THEN 0 ELSE progressCalls[k][Len(progressCalls[k])]

\* C21: a record in error keeps the counter at m, the number of images the
\* earlier shots of its target produced, which is the last progress value
\* reported (0 when none was), while its images are empty; the step that
\* records the error leaves the counter as it was.
C21_ErrorKeepsCounter ==
    /\ [](\A k \in DOMAIN results :
            results[k].status = "error" =>
               /\ results[k].progress = Len(returned[k])
               /\ results[k].progress = LastProgress(k)
               /\ results[k].images = <<>>)
    /\ [][pc = "catch" =>
            /\ results'[loopI + 1].status = "error"
            /\ results'[loopI + 1].progress = results[loopI + 1].progress]_vars

\* An error record whose counter is greater than its number of images, after
\* a failure on the third shot.
C21_Witness ==
    \E k \in DOMAIN results :
        /\ results[k].status = "error"
        /\ results[k].progress = 2
        /\ Len(results[k].images) = 0
        /\ Cardinality(CallsOf(k - 1)) = 3
        /\ Cardinality(RejectedOf(k - 1)) = 1

====
